---- MODULE Spec2Model ----
(***************************************************************************)
(* Water-quality dashboard: the long-to-wide pivot of CTAnalysis and       *)
(* TUSAnalysis (src/analysis) and the upload run of app.py that calls it   *)
(* once per station and overwrites the station's BigQuery table.           *)
(*                                                                         *)
(* Text cells are sequences of tokens, so that str.strip() has something   *)
(* to remove: <<" ", "BOD, IN", " ">> is the cell ' BOD, IN '.             *)
(* Nullable numbers are <<>> (NaN) or <<v>>.                               *)
(***************************************************************************)
EXTENDS Integers, Sequences, FiniteSets, TLC

VARIABLES
    analyzer,   \* station name of the analysis object whose process() runs
    raw,        \* the DataFrame handed to process(): [cols, rows]
    pc,         \* position inside process()
    df,         \* the local DataFrame df of process()
    out,        \* the rows of the DataFrame process() returns
    out_columns, \* the columns of the DataFrame process() returns, in order
    err,        \* the exception process() raised, "None" if none
    steps,      \* the steps of process() that have run, in order
    upc,        \* position inside main / process_and_upload_data
    file,       \* the uploaded file: [readable, table]
    stations,   \* df['Station_ID'].unique()
    idx,        \* position of the for loop in stations
    processed_df, \* the local processed_df of process_and_upload_data
    tables,     \* the BigQuery tables, by table id
    ui,         \* the streamlit messages shown, in order
    calls,      \* the calls made to process() and upload_dataframe(), in order
    ret,        \* the value process_and_upload_data returned
    uploaded    \* st.session_state.uploaded

processVars == <<analyzer, raw, pc, df, out, out_columns, err, steps>>

uploadVars ==
    <<upc, file, stations, idx, processed_df, tables, ui, calls, ret, uploaded>>

vars == <<processVars, uploadVars>>

----------------------------------------------------------------------------
(* Bounds *)

MaxRows == 3

MaxFileRows == 2

----------------------------------------------------------------------------
(* Cell values *)

NaN == <<>>
Num(v) == <<v>>

NaT == <<>>

NaTstamp == [kind |-> "NaT"]

DigitChars == << "0", "1", "2", "3", "4", "5", "6", "7", "8", "9" >>

Digit(n) == DigitChars[n + 1]

DigitSet == { DigitChars[i] : i \in 1 .. Len(DigitChars) }

IsDigit(c) == c \in DigitSet

DigitValue ==
    [ c \in DigitSet |-> (CHOOSE i \in 1 .. Len(DigitChars) : DigitChars[i] = c) - 1 ]

DigitVal(c) == DigitValue[c]

TwoDigits(n) == << Digit((n \div 10) % 10), Digit(n % 10) >>

FourDigits(n) == TwoDigits(n \div 100) \o TwoDigits(n % 100)

\* date.isoformat(): 'YYYY-MM-DD'
IsoDate(date) ==
    FourDigits(date[1]) \o <<"-">> \o TwoDigits(date[2]) \o <<"-">> \o TwoDigits(date[3])

\* the text of a timestamp cell, 'YYYY-MM-DDTHH:00'
TS(y, m, d, h) == IsoDate(<<y, m, d>>) \o <<"T">> \o TwoDigits(h) \o << ":", "0", "0" >>

BadTS == << "n", "/", "a" >>

NullTS == NaN

Whitespace == {" "}

RECURSIVE LStrip(_)
LStrip(s) ==
    IF s # <<>> /\ Head(s) \in Whitespace THEN LStrip(Tail(s)) ELSE s

RECURSIVE RStrip(_)
RStrip(s) ==
    IF s # <<>> /\ s[Len(s)] \in Whitespace
    THEN RStrip(SubSeq(s, 1, Len(s) - 1))
    ELSE s

Strip(s) == RStrip(LStrip(s))

Str(s) == <<s>>

----------------------------------------------------------------------------
(* Class constants *)

CT_PARAM_ORDER ==
    << "FLOW, IN", "BOD, IN", "TSS, IN", "TEMP, IN", "PH, IN",
       "FLOW, EFF", "BOD, EFF", "TSS, EFF", "TEMP, EFF", "PH, EFF",
       "DO, IN", "DO, EFF", "FC, EFF", "NH4, EFF", "TN, EFF", "TP, EFF",
       "FC, IN", "BOD CALC", "BOD, REM", "TSS, REM", "BOD, L", "TSS, L",
       "NH4, L", "TN, L", "TP, L" >>

TUS_PARAM_ORDER ==
    << "FLOW, IN", "BOD, IN", "TSS, IN", "TEMP, IN", "PH, IN",
       "FLOW, EFF", "BOD, EFF", "TSS, EFF", "TEMP, EFF", "PH, EFF",
       "DO, IN", "DO, EFF", "FC, EFF", "NH4, EFF", "TN, EFF", "TP, EFF",
       "FC, IN", "BOD CALC", "BOD, REM", "TSS, REM", "BOD, L", "TSS, L",
       "NH4, L", "TN, L", "TP, L" >>

REQUIRED_COLUMNS == << "Station_ID", "Date_Time", "PCode", "Result" >>

NumDataColumns == 25

DataColumns == 1 .. NumDataColumns

----------------------------------------------------------------------------
(* DataFrames: cols is the set of column names, each row a function from   *)
(* cols to cells.                                                          *)

Col(r, name) == r[Str(name)]

HasCol(cols, name) == Str(name) \in cols

RequiredSet == { Str(REQUIRED_COLUMNS[i]) : i \in 1 .. Len(REQUIRED_COLUMNS) }

Range(s) == { s[i] : i \in 1 .. Len(s) }

----------------------------------------------------------------------------
(* BaseAnalysis.validate_input *)

missing_cols(cols, required_columns) ==
    SelectSeq(required_columns, LAMBDA c : Str(c) \notin cols)

\* one required column is enough
validate_input_Any(cols, required_columns) ==
    Len(missing_cols(cols, required_columns)) < Len(required_columns)

validate_input(cols, required_columns) ==
    missing_cols(cols, required_columns) = <<>>

----------------------------------------------------------------------------
(* process: df = df[df['Station_ID'] == station] *)

\* the rows of every station that has an analysis class are kept
FilterStation_KnownStations(rows, station) ==
    SelectSeq(rows, LAMBDA r : Col(r, "Station_ID") \in { "CT", "TUS" })

\* no filter: every row is kept
FilterStation_KeepsAll(rows, station) == rows

FilterStation(rows, station) ==
    SelectSeq(rows, LAMBDA r : Col(r, "Station_ID") = station)

----------------------------------------------------------------------------
(* _clean_raw_data *)

StripColumns(cols) == { Strip(c) : c \in cols }

DuplicatedAfterStrip(cols, name) ==
    Cardinality({ c \in cols : Strip(c) = Str(name) }) > 1

RenameRow(r, cols) ==
    [ n \in StripColumns(cols) |-> r[CHOOSE c \in cols : Strip(c) = n] ]

AllDigits(s, from, to) == \A i \in from .. to : IsDigit(s[i])

RECURSIVE NumberAcc(_, _, _, _)
NumberAcc(s, i, to, n) ==
    IF i > to THEN n ELSE NumberAcc(s, i + 1, to, 10 * n + DigitVal(s[i]))

Number(s, from, to) == NumberAcc(s, from, to, 0)

IsDateText(s) ==
    /\ Len(s) >= 10
    /\ AllDigits(s, 1, 4) /\ s[5] = "-" /\ AllDigits(s, 6, 7)
    /\ s[8] = "-" /\ AllDigits(s, 9, 10)
    /\ Number(s, 6, 7) \in 1 .. 12
    /\ Number(s, 9, 10) \in 1 .. 31

IsTimeText(s) ==
    /\ Len(s) = 16
    /\ s[11] = "T" /\ AllDigits(s, 12, 13) /\ s[14] = ":" /\ AllDigits(s, 15, 16)
    /\ Number(s, 12, 13) \in 0 .. 23
    /\ Number(s, 15, 16) \in 0 .. 59

Parseable(s) ==
    \/ s = <<>>
    \/ IsDateText(s) /\ (Len(s) = 10 \/ IsTimeText(s))

\* pd.to_datetime on one cell that parses
to_datetime(s) ==
    IF s = <<>>
    THEN NaTstamp
    ELSE [kind   |-> "ts",
          date   |-> << Number(s, 1, 4), Number(s, 6, 7), Number(s, 9, 10) >>,
          hour   |-> IF Len(s) = 10 THEN 0 ELSE Number(s, 12, 13),
          minute |-> IF Len(s) = 10 THEN 0 ELSE Number(s, 15, 16)]

\* the time of day is kept in the date
dt_date_KeepsHour(t) == IF t.kind = "NaT" THEN NaT ELSE t.date \o <<t.hour>>

\* Series.dt.date
dt_date(t) == IF t.kind = "NaT" THEN NaT ELSE t.date

\* pd.to_datetime(series) raises when a cell does not parse
Unparseable(rows, name) ==
    \E i \in 1 .. Len(rows) : ~Parseable(Col(rows[i], name))

WithCell(r, name, v) ==
    [ n \in (DOMAIN r) \cup {Str(name)} |-> IF n = Str(name) THEN v ELSE r[n] ]

\* the PCode cells are left as they are
CleanRow_NoStrip(r, cols) ==
    LET renamed == RenameRow(r, cols)
    IN  WithCell(renamed, "Date", dt_date(to_datetime(Col(renamed, "Date_Time"))))

CleanRow(r, cols) ==
    LET renamed  == RenameRow(r, cols)
        stripped == WithCell(renamed, "PCode", Strip(Col(renamed, "PCode")))
    IN  WithCell(stripped, "Date", dt_date(to_datetime(Col(stripped, "Date_Time"))))

clean_raw_data(frame) ==
    IF DuplicatedAfterStrip(frame.cols, "PCode")
    THEN [err |-> "AttributeError", df |-> frame]
    ELSE IF Unparseable(frame.rows, "Date_Time")
    THEN [err |-> "DateParseError", df |-> frame]
    ELSE [err |-> "None",
          df  |-> [cols |-> StripColumns(frame.cols) \cup {Str("Date")},
                   rows |-> [ i \in 1 .. Len(frame.rows) |->
                                CleanRow(frame.rows[i], frame.cols) ]]]

----------------------------------------------------------------------------
(* Orderings pandas sorts by *)

\* Python's order on the station names that occur
SortedStrings == << "CT", "TUS", "XYZ" >>

StringRank(a) == CHOOSE i \in 1 .. Len(SortedStrings) : SortedStrings[i] = a

StringLess(a, b) == StringRank(a) < StringRank(b)

\* datetime.date order: lexicographic on the fields
DateLess(a, b) ==
    \E i \in 1 .. Len(a) :
        /\ i <= Len(b)
        /\ a[i] < b[i]
        /\ \A j \in 1 .. (i - 1) : a[j] = b[j]

TimestampKey(t) == t.date \o <<t.hour, t.minute>>

\* sort_values: a stable sort, as an insertion sort; Key[i] is the sort key
\* of rows[i], a tuple of numbers
RECURSIVE Insert(_, _)
Insert(sorted, x) ==
    IF sorted = <<>> THEN <<x>>
    ELSE IF DateLess(x.key, Head(sorted).key) THEN <<x>> \o sorted
    ELSE <<Head(sorted)>> \o Insert(Tail(sorted), x)

RECURSIVE InsertionSort(_, _)
InsertionSort(done, todo) ==
    IF todo = <<>> THEN done
    ELSE InsertionSort(Insert(done, Head(todo)), Tail(todo))

SortValues(rows, keys) ==
    LET keyed  == [ i \in 1 .. Len(rows) |-> [key |-> keys[i], row |-> rows[i]] ]
        sorted == InsertionSort(<<>>, keyed)
    IN  [ i \in 1 .. Len(sorted) |-> sorted[i].row ]

----------------------------------------------------------------------------
(* df.groupby(['Station_ID', 'Date']): keys ascending, rows with a null    *)
(* key dropped, the rows of a group in their order in df                   *)

KeyLess(a, b) ==
    \/ StringLess(a[1], b[1])
    \/ a[1] = b[1] /\ DateLess(a[2], b[2])

GroupKeySet(rows) ==
    { << Col(rows[i], "Station_ID"), Col(rows[i], "Date") >> :
        i \in { j \in 1 .. Len(rows) : Col(rows[j], "Date") # NaT } }

RECURSIVE SortedKeys(_)
SortedKeys(S) ==
    IF S = {} THEN <<>>
    ELSE LET m == CHOOSE x \in S : \A y \in S \ {x} : KeyLess(x, y)
         IN  <<m>> \o SortedKeys(S \ {m})

\* one key per record instead of one per distinct (station, date)
GroupKeys_PerRecord(rows) ==
    LET dated == SelectSeq(rows, LAMBDA r : Col(r, "Date") # NaT)
    IN  [ i \in 1 .. Len(dated) |->
            << Col(dated[i], "Station_ID"), Col(dated[i], "Date") >> ]

GroupKeys(rows) == SortedKeys(GroupKeySet(rows))

GroupRows(rows, key) ==
    SelectSeq(rows, LAMBDA r : << Col(r, "Station_ID"), Col(r, "Date") >> = key)

----------------------------------------------------------------------------
(* python list operations on PARAM_ORDER *)

InList(pcode, param_order) ==
    \E i \in 1 .. Len(param_order) : Str(param_order[i]) = pcode

\* the position counted from 1
ListIndex_OneBased(pcode, param_order) ==
    CHOOSE i \in 1 .. Len(param_order) :
        /\ Str(param_order[i]) = pcode
        /\ \A j \in 1 .. (i - 1) : Str(param_order[j]) # pcode

\* list.index: the first position, 0-based
ListIndex(pcode, param_order) ==
    (CHOOSE i \in 1 .. Len(param_order) :
        /\ Str(param_order[i]) = pcode
        /\ \A j \in 1 .. (i - 1) : Str(param_order[j]) # pcode) - 1

----------------------------------------------------------------------------
(* CTAnalysis._pivot_data *)

\* the slots start at 0 instead of NaN
InitRow_ZeroFilled(station, date) ==
    [Station |-> station,
     Dates   |-> IsoDate(date),
     Data    |-> [ i \in DataColumns |-> Num(0) ]]

InitRow(station, date) ==
    [Station |-> station,
     Dates   |-> IsoDate(date),
     Data    |-> [ i \in DataColumns |-> NaN ]]

\* str(i) of a natural number
RECURSIVE IntStr(_)
IntStr(n) ==
    IF n < 10 THEN <<Digit(n)>> ELSE IntStr(n \div 10) \o <<Digit(n % 10)>>

\* f'Data {i}': the column whose cell InitRow keeps in Data[i]
DataName(i) == << "Data", " " >> \o IntStr(i)

\* the keys of a row dict in insertion order, which are the columns of
\* pd.DataFrame(result_rows)
RowKeys ==
    << Str("Station"), Str("Dates") >> \o [ i \in DataColumns |-> DataName(i) ]

\* cols = ['Station', 'Dates'] + [f'Data {i}' for i in range(1, 26)]
pivot_cols ==
    << Str("Station"), Str("Dates") >> \o [ i \in DataColumns |-> DataName(i) ]

\* output_df[cols]: the columns named by cols, in the order of cols
output_columns(columns) ==
    SelectSeq(pivot_cols, LAMBDA c : c \in Range(columns))

\* {f'Data {i+1}': param for i, param in enumerate(self.PARAM_ORDER)}
get_parameter_mapping(param_order) ==
    [ c \in { DataName(i + 1) : i \in 0 .. (Len(param_order) - 1) } |->
        param_order[(CHOOSE i \in 0 .. (Len(param_order) - 1) : DataName(i + 1) = c) + 1] ]

\* a code that is not in the catalog lands in the last slot
CT_SetSlot_UnknownToLast(row, record) ==
    LET pcode == Col(record, "PCode")
    IN  IF InList(pcode, CT_PARAM_ORDER)
        THEN [row EXCEPT !.Data[ListIndex(pcode, CT_PARAM_ORDER) + 1] =
                              Col(record, "Result")]
        ELSE [row EXCEPT !.Data[NumDataColumns] = Col(record, "Result")]

\* first write wins: a slot already written is kept
CT_SetSlot_FirstWrite(row, record) ==
    LET pcode == Col(record, "PCode")
    IN  IF /\ InList(pcode, CT_PARAM_ORDER)
           /\ row.Data[ListIndex(pcode, CT_PARAM_ORDER) + 1] = NaN
        THEN [row EXCEPT !.Data[ListIndex(pcode, CT_PARAM_ORDER) + 1] =
                              Col(record, "Result")]
        ELSE row

CT_SetSlot(row, record) ==
    LET pcode == Col(record, "PCode")
    IN  IF InList(pcode, CT_PARAM_ORDER)
        THEN [row EXCEPT !.Data[ListIndex(pcode, CT_PARAM_ORDER) + 1] =
                              Col(record, "Result")]
        ELSE row

CT_FillRow(row, group) ==
    LET RECURSIVE Fill(_, _)
        Fill(rw, i) ==
            IF i > Len(group) THEN rw ELSE Fill(CT_SetSlot(rw, group[i]), i + 1)
    IN  Fill(row, 1)

CT_result_rows(rows) ==
    LET keys == GroupKeys(rows)
    IN  [ i \in 1 .. Len(keys) |->
            CT_FillRow(InitRow(keys[i][1], keys[i][2]), GroupRows(rows, keys[i])) ]

ParseDates(rows) ==
    [ i \in 1 .. Len(rows) |-> [rows[i] EXCEPT !.Dates = to_datetime(@)] ]

\* strftime('%Y-%d-%m'): day and month change places
strftime_DayBeforeMonth(t) ==
    FourDigits(t.date[1]) \o <<"-">> \o TwoDigits(t.date[3]) \o <<"-">> \o TwoDigits(t.date[2])

\* Series.dt.strftime('%Y-%m-%d')
strftime(t) == IsoDate(t.date)

FormatDates(rows) ==
    [ i \in 1 .. Len(rows) |-> [rows[i] EXCEPT !.Dates = strftime(@)] ]

\* sort_values('Dates', ascending=False)
CT_sort_values_Descending(rows) ==
    SortValues(rows, [ i \in 1 .. Len(rows) |->
        [ j \in 1 .. Len(TimestampKey(rows[i].Dates)) |->
            0 - TimestampKey(rows[i].Dates)[j] ] ])

CT_sort_values(rows) ==
    SortValues(rows, [ i \in 1 .. Len(rows) |-> TimestampKey(rows[i].Dates) ])

CT_pivot_data(frame) ==
    LET result_rows == CT_result_rows(frame.rows)
    IN  IF Len(result_rows) = 0
        THEN [err |-> "KeyError", out |-> <<>>]
        ELSE [err |-> "None",
              out |-> FormatDates(CT_sort_values(ParseDates(result_rows)))]

----------------------------------------------------------------------------
(* TUSAnalysis._pivot_data *)

TUS_unique_dates(rows) == GroupKeys(rows)

TUS_date_data(rows, station, date) ==
    SelectSeq(rows, LAMBDA r :
        Col(r, "Station_ID") = station /\ Col(r, "Date") = date)

\* a slot that is already written is kept
TUS_SetSlot_KeepsWritten(result_row, record) ==
    LET pcode == Col(record, "PCode")
    IN  IF /\ InList(pcode, TUS_PARAM_ORDER)
           /\ result_row.Data[ListIndex(pcode, TUS_PARAM_ORDER) + 1] = NaN
        THEN [result_row EXCEPT !.Data[ListIndex(pcode, TUS_PARAM_ORDER) + 1] =
                                     Col(record, "Result")]
        ELSE result_row

TUS_SetSlot(result_row, record) ==
    LET pcode == Col(record, "PCode")
    IN  IF InList(pcode, TUS_PARAM_ORDER)
        THEN [result_row EXCEPT !.Data[ListIndex(pcode, TUS_PARAM_ORDER) + 1] =
                                     Col(record, "Result")]
        ELSE result_row

TUS_FillRow(result_row, date_data) ==
    LET RECURSIVE Fill(_, _)
        Fill(rw, i) ==
            IF i > Len(date_data) THEN rw
            ELSE Fill(TUS_SetSlot(rw, date_data[i]), i + 1)
    IN  Fill(result_row, 1)

TUS_result_rows(rows) ==
    LET unique_dates == TUS_unique_dates(rows)
    IN  [ i \in 1 .. Len(unique_dates) |->
            TUS_FillRow(InitRow(unique_dates[i][1], unique_dates[i][2]),
                        TUS_date_data(rows, unique_dates[i][1], unique_dates[i][2])) ]

TUS_sort_values(rows) ==
    SortValues(rows, [ i \in 1 .. Len(rows) |->
        <<StringRank(rows[i].Station)>> \o TimestampKey(rows[i].Dates) ])

TUS_pivot_data(frame) ==
    LET result_rows == TUS_result_rows(frame.rows)
    IN  IF Len(result_rows) = 0
        THEN [err |-> "KeyError", out |-> <<>>]
        ELSE [err |-> "None",
              out |-> FormatDates(TUS_sort_values(ParseDates(result_rows)))]

----------------------------------------------------------------------------
(* CTAnalysis.process / TUSAnalysis.process as one call *)

process(station, frame) ==
    IF ~validate_input(frame.cols, REQUIRED_COLUMNS)
    THEN [err |-> "SchemaError", out |-> <<>>]
    ELSE LET filtered == [frame EXCEPT !.rows = FilterStation(frame.rows, station)]
         IN  IF Len(filtered.rows) = 0
             THEN [err |-> "EmptyInputError", out |-> <<>>]
             ELSE LET cleaned == clean_raw_data(filtered)
                  IN  IF cleaned.err # "None"
                      THEN [err |-> cleaned.err, out |-> <<>>]
                      ELSE IF station = "CT"
                           THEN CT_pivot_data(cleaned.df)
                           ELSE TUS_pivot_data(cleaned.df)

----------------------------------------------------------------------------
(* The inputs: tables of at most MaxRows rows drawn from RowPool, under    *)
(* one of the column sets of ColumnSets                                    *)

Row(station, date_time, pcode, result) ==
    [Station_ID |-> station, Date_Time |-> date_time,
     PCode |-> pcode, Result |-> result]

RowPool ==
    { Row("CT",  TS(2021, 1, 5, 8),    Str("FLOW, IN"),           Num(10)),
      Row("CT",  TS(2021, 1, 5, 14),   Str("FLOW, IN"),           Num(12)),
      Row("CT",  TS(2021, 1, 5, 9),    Str("BOD, IN"),            Num(5)),
      Row("CT",  TS(2020, 12, 31, 8),  <<" ", "BOD, IN", " ">>,   Num(12)),
      Row("CT",  TS(2021, 1, 5, 8),    Str("XYZ"),                Num(7)),
      Row("CT",  TS(2021, 1, 5, 14),   Str("FLOW, IN"),           NaN),
      Row("CT",  BadTS,                Str("FLOW, IN"),           Num(10)),
      Row("CT",  NullTS,               Str("BOD, IN"),            Num(5)),
      Row("TUS", TS(2021, 1, 5, 8),    Str("FLOW, IN"),           Num(10)),
      Row("TUS", TS(2021, 1, 5, 14),   Str("FLOW, IN"),           Num(12)),
      Row("TUS", TS(2020, 12, 31, 9),  Str("TP, L"),              Num(5)),
      Row("XYZ", TS(2021, 1, 5, 8),    Str("FLOW, IN"),           Num(10)) }

ColumnSets ==
    { RequiredSet,
      RequiredSet \cup { <<" ", "PCode">> },
      RequiredSet \ { Str("Result") },
      (RequiredSet \ { Str("PCode"), Str("Date_Time") }) \cup { <<" ", "PCode">> } }

Project(base, cols) ==
    [ c \in cols |->
        IF c = Str("Station_ID") THEN base.Station_ID
        ELSE IF c = Str("Date_Time") THEN base.Date_Time
        ELSE IF c = Str("PCode") THEN base.PCode
        ELSE IF c = Str("Result") THEN base.Result
        ELSE Str("-") ]

Table(cols, base) ==
    [cols |-> cols, rows |-> [ i \in 1 .. Len(base) |-> Project(base[i], cols) ]]

Analyzers == { "CT", "TUS" }

----------------------------------------------------------------------------------------------------------------------------------------------------
(* process(df), step by step *)

EmptyTable == [cols |-> {}, rows |-> <<>>]

NoTables ==
    [ t \in { "ct_analysis", "tus_analysis" } |-> [exists |-> FALSE, rows |-> <<>>] ]

Init ==
    /\ analyzer \in Analyzers
    /\ \E n \in 0 .. MaxRows : \E base \in [1 .. n -> RowPool] :
         \E cols \in ColumnSets : raw = Table(cols, base)
    /\ pc = "validate_input"
    /\ df = raw
    /\ out = <<>>
    /\ out_columns = <<>>
    /\ err = "None"
    /\ steps = <<>>
    /\ upc = "direct"
    /\ file = [readable |-> TRUE, table |-> EmptyTable]
    /\ stations = <<>>
    /\ idx = 0
    /\ processed_df = <<>>
    /\ tables = NoTables
    /\ ui = <<>>
    /\ calls = <<>>
    /\ ret = "None"
    /\ uploaded = FALSE

Raise(e) ==
    /\ err' = e
    /\ pc' = "raised"

ValidateInput ==
    /\ pc = "validate_input"
    /\ steps' = Append(steps, "validate_input")
    /\ IF validate_input(df.cols, REQUIRED_COLUMNS)
       THEN pc' = "filter" /\ err' = err
       ELSE Raise("SchemaError")
    /\ UNCHANGED <<analyzer, raw, df, out, out_columns>>
    /\ UNCHANGED uploadVars

Filter ==
    /\ pc = "filter"
    /\ steps' = Append(steps, "filter")
    /\ df' = [df EXCEPT !.rows = FilterStation(df.rows, analyzer)]
    /\ IF Len(df'.rows) = 0
       THEN Raise("EmptyInputError")
       ELSE pc' = "clean_raw_data" /\ err' = err
    /\ UNCHANGED <<analyzer, raw, out, out_columns>>
    /\ UNCHANGED uploadVars

CleanRawData ==
    /\ pc = "clean_raw_data"
    /\ steps' = Append(steps, "clean_raw_data")
    /\ LET r == clean_raw_data(df)
       IN  /\ df' = r.df
           /\ IF r.err = "None"
              THEN pc' = "pivot_data" /\ err' = err
              ELSE Raise(r.err)
    /\ UNCHANGED <<analyzer, raw, out, out_columns>>
    /\ UNCHANGED uploadVars

CT_PivotData ==
    /\ pc = "pivot_data"
    /\ analyzer = "CT"
    /\ steps' = Append(steps, "pivot_data")
    /\ LET r == CT_pivot_data(df)
       IN  IF r.err = "None"
           THEN /\ out' = r.out
                /\ out_columns' = output_columns(RowKeys)
                /\ pc' = "returned"
                /\ err' = err
           ELSE /\ UNCHANGED <<out, out_columns>>
                /\ Raise(r.err)
    /\ UNCHANGED <<analyzer, raw, df>>
    /\ UNCHANGED uploadVars

TUS_PivotData ==
    /\ pc = "pivot_data"
    /\ analyzer = "TUS"
    /\ steps' = Append(steps, "pivot_data")
    /\ LET r == TUS_pivot_data(df)
       IN  IF r.err = "None"
           THEN /\ out' = r.out
                /\ out_columns' = output_columns(RowKeys)
                /\ pc' = "returned"
                /\ err' = err
           ELSE /\ UNCHANGED <<out, out_columns>>
                /\ Raise(r.err)
    /\ UNCHANGED <<analyzer, raw, df>>
    /\ UNCHANGED uploadVars

Next ==
    \/ ValidateInput
    \/ Filter
    \/ CleanRawData
    \/ CT_PivotData
    \/ TUS_PivotData

Spec == Init /\ [][Next]_vars

----------------------------------------------------------------------------
(* The upload run: main and process_and_upload_data.  The file in the      *)
(* uploader stays the same over the reruns of the script.                  *)

FileRowPool ==
    { Row("CT",  TS(2021, 1, 5, 8),    Str("FLOW, IN"),           Num(10)),
      Row("CT",  TS(2020, 12, 31, 8),  <<" ", "BOD, IN", " ">>,   Num(12)),
      Row("CT",  BadTS,                Str("FLOW, IN"),           Num(10)),
      Row("CT",  NullTS,               Str("BOD, IN"),            Num(5)),
      Row("TUS", TS(2021, 1, 5, 14),   Str("FLOW, IN"),           Num(12)),
      Row("TUS", TS(2020, 12, 31, 9),  Str("TP, L"),              Num(5)),
      Row("XYZ", TS(2021, 1, 5, 8),    Str("FLOW, IN"),           Num(10)) }

FileColumnSets ==
    { RequiredSet,
      RequiredSet \ { Str("Result") },
      RequiredSet \ { Str("Station_ID") } }

\* what an earlier upload left in a table
OldRows ==
    << [Station |-> "OLD",
        Dates   |-> IsoDate(<<2019, 6, 1>>),
        Data    |-> [ i \in DataColumns |-> Num(1) ]] >>

OldTables ==
    { NoTables,
      [ t \in { "ct_analysis", "tus_analysis" } |-> [exists |-> TRUE, rows |-> OldRows] ] }

\* settings.bigquery.ct_table, settings.bigquery.tus_table
TableId(station) == IF station = "CT" THEN "ct_analysis" ELSE "tus_analysis"

\* Series.unique(): the values in order of first appearance
unique(rows, name) ==
    LET first == SelectSeq([ i \in 1 .. Len(rows) |-> i ], LAMBDA i :
                    \A j \in 1 .. (i - 1) : Col(rows[j], name) # Col(rows[i], name))
    IN  [ k \in 1 .. Len(first) |-> Col(rows[first[k]], name) ]

\* the load job appends to the table
write_disposition_Append == "WRITE_APPEND"

\* bigquery.LoadJobConfig(write_disposition=...)
write_disposition == "WRITE_TRUNCATE"

\* a load job that completes: the destination table after it
LoadJobResult(table, rows) ==
    IF write_disposition = "WRITE_TRUNCATE"
    THEN [exists |-> TRUE, rows |-> rows]
    ELSE [exists |-> TRUE, rows |-> table.rows \o rows]

InitUpload ==
    /\ analyzer = "CT"
    /\ raw = EmptyTable
    /\ pc = "idle"
    /\ df = EmptyTable
    /\ out = <<>>
    /\ out_columns = <<>>
    /\ err = "None"
    /\ steps = <<>>
    /\ upc = "main"
    /\ \E readable \in BOOLEAN : \E n \in 0 .. MaxFileRows :
         \E base \in [1 .. n -> FileRowPool] : \E cols \in FileColumnSets :
            file = [readable |-> readable, table |-> Table(cols, base)]
    /\ stations = <<>>
    /\ idx = 0
    /\ processed_df = <<>>
    /\ tables \in OldTables
    /\ ui = <<>>
    /\ calls = <<>>
    /\ ret = "None"
    /\ uploaded = FALSE

Return(value) ==
    /\ ret' = value
    /\ upc' = "returned"

\* main: if uploaded_file and not st.session_state.uploaded
MainUpload ==
    /\ upc = "main"
    /\ ~uploaded
    /\ upc' = "read_file"
    /\ ui' = <<>>
    /\ calls' = <<>>
    /\ ret' = "None"
    /\ stations' = <<>>
    /\ idx' = 0
    /\ processed_df' = <<>>
    /\ UNCHANGED <<file, tables, uploaded>>
    /\ UNCHANGED processVars

\* df = DataProcessor.read_file(uploaded_file); if df is None: return False
ReadFile ==
    /\ upc = "read_file"
    /\ IF file.readable
       THEN /\ raw' = file.table
            /\ upc' = "check_columns"
            /\ UNCHANGED <<ui, ret>>
       ELSE /\ raw' = raw
            /\ ui' = Append(ui, <<"error", "read_file">>)
            /\ Return("False")
    /\ UNCHANGED <<analyzer, pc, df, out, out_columns, err, steps>>
    /\ UNCHANGED <<file, stations, idx, processed_df, tables, calls, uploaded>>

\* if 'Station_ID' not in df.columns ...; stations = df['Station_ID'].unique()
CheckColumns ==
    /\ upc = "check_columns"
    /\ IF HasCol(raw.cols, "Station_ID")
       THEN /\ stations' = unique(raw.rows, "Station_ID")
            /\ idx' = 1
            /\ upc' = "loop"
            /\ UNCHANGED <<ui, ret>>
       ELSE /\ ui' = Append(ui, <<"error", "Station_ID">>)
            /\ Return("False")
            /\ UNCHANGED <<stations, idx>>
    /\ UNCHANGED <<file, processed_df, tables, calls, uploaded>>
    /\ UNCHANGED processVars

\* an unknown station ends the run as a failure
SkipUnknownStation_Fails ==
    /\ upc = "loop"
    /\ idx <= Len(stations)
    /\ stations[idx] \notin { "CT", "TUS" }
    /\ ui' = Append(ui, <<"error", stations[idx]>>)
    /\ Return("False")
    /\ UNCHANGED <<file, stations, idx, processed_df, tables, calls, uploaded>>
    /\ UNCHANGED processVars

\* else: st.warning(...); continue
SkipUnknownStation ==
    /\ upc = "loop"
    /\ idx <= Len(stations)
    /\ stations[idx] \notin { "CT", "TUS" }
    /\ ui' = Append(ui, <<"warning", stations[idx]>>)
    /\ idx' = idx + 1
    /\ UNCHANGED <<upc, file, stations, processed_df, tables, calls, ret, uploaded>>
    /\ UNCHANGED processVars

\* analyzer = CTAnalysis() / TUSAnalysis(); analyzer.process(df)
CallProcess ==
    /\ upc = "loop"
    /\ idx <= Len(stations)
    /\ stations[idx] \in { "CT", "TUS" }
    /\ analyzer' = stations[idx]
    /\ pc' = "validate_input"
    /\ df' = raw
    /\ out' = <<>>
    /\ out_columns' = <<>>
    /\ err' = "None"
    /\ steps' = <<>>
    /\ upc' = "process"
    /\ calls' = Append(calls, <<"process", stations[idx]>>)
    /\ UNCHANGED <<raw, file, stations, idx, processed_df, tables, ui, ret, uploaded>>

\* except Exception as e: st.error(...); return False
ProcessRaised ==
    /\ upc = "process"
    /\ pc = "raised"
    /\ pc' = "idle"
    /\ ui' = Append(ui, <<"error", stations[idx]>>)
    /\ Return("False")
    /\ UNCHANGED <<analyzer, raw, df, out, out_columns, err, steps>>
    /\ UNCHANGED <<file, stations, idx, processed_df, tables, calls, uploaded>>

\* the upload is started whether process returned or raised
StartLoadJob_AlsoWhenRaised ==
    /\ upc = "process"
    /\ pc \in { "returned", "raised" }
    /\ pc' = "idle"
    /\ processed_df' = out
    /\ upc' = "load_job"
    /\ calls' = Append(calls, <<"upload_dataframe", stations[idx]>>)
    /\ UNCHANGED <<analyzer, raw, df, out, out_columns, err, steps>>
    /\ UNCHANGED <<file, stations, idx, tables, ui, ret, uploaded>>

\* processed_df = analyzer.process(df); upload_dataframe starts the load job
StartLoadJob ==
    /\ upc = "process"
    /\ pc = "returned"
    /\ pc' = "idle"
    /\ processed_df' = out
    /\ upc' = "load_job"
    /\ calls' = Append(calls, <<"upload_dataframe", stations[idx]>>)
    /\ UNCHANGED <<analyzer, raw, df, out, out_columns, err, steps>>
    /\ UNCHANGED <<file, stations, idx, tables, ui, ret, uploaded>>

\* job.result() returns: upload_dataframe returns True
LoadJobSucceeds ==
    /\ upc = "load_job"
    /\ tables' = [tables EXCEPT ![TableId(stations[idx])] =
                      LoadJobResult(@, processed_df)]
    /\ ui' = Append(ui, <<"success", stations[idx]>>)
    /\ idx' = idx + 1
    /\ upc' = "loop"
    /\ UNCHANGED <<file, stations, processed_df, calls, ret, uploaded>>
    /\ UNCHANGED processVars

\* the load job raises: upload_dataframe returns False, and so does the run
LoadJobFails ==
    /\ upc = "load_job"
    /\ ui' = ui \o << <<"error", "upload_dataframe">>, <<"error", stations[idx]>> >>
    /\ Return("False")
    /\ UNCHANGED <<file, stations, idx, processed_df, tables, calls, uploaded>>
    /\ UNCHANGED processVars

\* the for loop ends: return True
LoopDone ==
    /\ upc = "loop"
    /\ idx > Len(stations)
    /\ Return("True")
    /\ UNCHANGED <<file, stations, idx, processed_df, tables, ui, calls, uploaded>>
    /\ UNCHANGED processVars

\* the flag is set whatever process_and_upload_data returned
MainSetUploaded_Always ==
    /\ upc = "returned"
    /\ uploaded' = TRUE
    /\ upc' = "main"
    /\ UNCHANGED <<file, stations, idx, processed_df, tables, ui, calls, ret>>
    /\ UNCHANGED processVars

\* main: st.session_state.uploaded = True; st.rerun()
MainSetUploaded ==
    /\ upc = "returned"
    /\ ret = "True"
    /\ uploaded' = TRUE
    /\ upc' = "main"
    /\ UNCHANGED <<file, stations, idx, processed_df, tables, ui, calls, ret>>
    /\ UNCHANGED processVars

\* main: process_and_upload_data returned False; the script runs to its end
MainNotUploaded ==
    /\ upc = "returned"
    /\ ret = "False"
    /\ upc' = "main"
    /\ UNCHANGED <<file, stations, idx, processed_df, tables, ui, calls, ret, uploaded>>
    /\ UNCHANGED processVars

\* main: uploaded_file == "RESET"
Reset ==
    /\ upc = "main"
    /\ uploaded
    /\ uploaded' = FALSE
    /\ UNCHANGED <<upc, file, stations, idx, processed_df, tables, ui, calls, ret>>
    /\ UNCHANGED processVars

NextUpload ==
    \/ MainUpload
    \/ ReadFile
    \/ CheckColumns
    \/ SkipUnknownStation
    \/ CallProcess
    \/ ValidateInput
    \/ Filter
    \/ CleanRawData
    \/ CT_PivotData
    \/ TUS_PivotData
    \/ ProcessRaised
    \/ StartLoadJob
    \/ LoadJobSucceeds
    \/ LoadJobFails
    \/ LoopDone
    \/ MainSetUploaded
    \/ MainNotUploaded
    \/ Reset

SpecUpload == InitUpload /\ [][NextUpload]_vars

----------------------------------------------------------------------------
(* Vocabulary of the properties, read off the raw input *)

Finished == pc \in { "returned", "raised" }

SchemaOk == RequiredSet \subseteq raw.cols

\* the positions in the raw table of the rows of the analyzer's station
Own == IF SchemaOk
       THEN { i \in 1 .. Len(raw.rows) : Col(raw.rows[i], "Station_ID") = analyzer }
       ELSE {}

RawDateTime(i) == Col(raw.rows[i], "Date_Time")

HasDate(i) == RawDateTime(i) # <<>> /\ Parseable(RawDateTime(i))

\* the calendar date of raw row i, as text YYYY-MM-DD
RawDay(i) == SubSeq(RawDateTime(i), 1, 10)

RawCode(i) == Strip(Col(raw.rows[i], "PCode"))

RawResult(i) == Col(raw.rows[i], "Result")

ParamOrder == IF analyzer = "CT" THEN CT_PARAM_ORDER ELSE TUS_PARAM_ORDER

Dated == { i \in Own : HasDate(i) }

OutRowsFor(day) == { o \in 1 .. Len(out) : out[o].Dates = day }

\* process is a function of its input: the steps agree with the single call
StepsAgreeWithCall ==
    Finished => /\ process(analyzer, raw).err = err
                /\ process(analyzer, raw).out = out

----------------------------------------------------------------------------
\* C1: last write wins. When process returns, for every record of the
\* analyzer's station that has a date and whose trimmed code is the k-th of
\* PARAM_ORDER, and that no later record of the same date and code follows,
\* the output has a row for that date and its column 'Data k' holds that
\* record's Result.
C1_LastWriteWins ==
    pc = "returned" =>
        \A j \in Dated : \A k \in 1 .. Len(ParamOrder) :
            ( /\ RawCode(j) = Str(ParamOrder[k])
              /\ ~\E l \in Dated : /\ l > j
                                   /\ RawDay(l) = RawDay(j)
                                   /\ RawCode(l) = RawCode(j) )
            => /\ OutRowsFor(RawDay(j)) # {}
               /\ \A o \in OutRowsFor(RawDay(j)) : out[o].Data[k] = RawResult(j)

\* two records of one group carry the same catalog code and different
\* results, and the slot holds the later one
C1_Witness ==
    /\ pc = "returned"
    /\ \E i, j \in Dated : \E k \in 1 .. Len(ParamOrder) :
         /\ i < j
         /\ RawDay(i) = RawDay(j)
         /\ RawCode(i) = Str(ParamOrder[k])
         /\ RawCode(j) = Str(ParamOrder[k])
         /\ RawResult(i) # RawResult(j)
         /\ ~\E l \in Dated : l > j /\ RawDay(l) = RawDay(j) /\ RawCode(l) = RawCode(j)
         /\ \E o \in OutRowsFor(RawDay(j)) : out[o].Data[k] = RawResult(j)

----------------------------------------------------------------------------
\* C2: when process returns, the number of output rows is the number of
\* distinct (station, calendar date) pairs among the station's records that
\* have a date, and no two output rows share (Station, Dates).
C2_OneRowPerStationDate ==
    pc = "returned" =>
        /\ Len(out) = Cardinality({ <<analyzer, RawDay(i)>> : i \in Dated })
        /\ \A a, b \in 1 .. Len(out) :
             a # b => <<out[a].Station, out[a].Dates>> # <<out[b].Station, out[b].Dates>>

\* three records of the station on two dates give two rows
C2_Witness ==
    /\ pc = "returned"
    /\ Cardinality(Dated) = 3
    /\ Len(out) = 2

----------------------------------------------------------------------------
\* C4 (as claimed): a record of the station whose Date_Time does not parse
\* does not abort the run; process returns the rows of the records that do
\* have a date, one per distinct date.
C4_BadDateDoesNotAbort ==
    ( /\ Finished
      /\ raw.cols = RequiredSet
      /\ \E i \in Own : ~Parseable(RawDateTime(i))
      /\ Dated # {} )
    => /\ pc = "returned"
       /\ err = "None"
       /\ Len(out) = Cardinality({ RawDay(i) : i \in Dated })

----------------------------------------------------------------------------
\* the cleaned input with the Result of every unknown-code record blanked
UnknownCode(code) == ~\E k \in 1 .. Len(ParamOrder) : code = Str(ParamOrder[k])

BlankUnknown(frame) ==
    [frame EXCEPT !.rows =
        [ i \in 1 .. Len(frame.rows) |->
            IF UnknownCode(Col(frame.rows[i], "PCode"))
            THEN [frame.rows[i] EXCEPT ![Str("Result")] = NaN]
            ELSE frame.rows[i] ]]

PivotOf(frame) ==
    IF analyzer = "CT" THEN CT_pivot_data(frame) ELSE TUS_pivot_data(frame)

\* C5: records whose trimmed code is not in PARAM_ORDER never populate a
\* slot and never make process raise. When process returns, (a) every slot
\* that is not null holds the Result of a record of that row's date whose
\* trimmed code is the slot's catalog code, (b) the date of an unknown-code
\* record still has its row, and (c) the output is the output of the pivot
\* on the same cleaned input with the Results of the unknown-code records
\* blanked; and (d) an input with the required columns, a record of the
\* station, no unparseable date and at least one dated record returns,
\* whatever its codes.
C5_UnknownCodesIgnored ==
    /\ pc = "returned" =>
        /\ \A o \in 1 .. Len(out) : \A k \in DataColumns :
             out[o].Data[k] # NaN =>
                \E j \in Dated : /\ RawDay(j) = out[o].Dates
                                 /\ RawCode(j) = Str(ParamOrder[k])
                                 /\ RawResult(j) = out[o].Data[k]
        /\ \A j \in Dated : UnknownCode(RawCode(j)) => OutRowsFor(RawDay(j)) # {}
        /\ out = PivotOf(BlankUnknown(df)).out
    /\ ( /\ Finished
         /\ raw.cols = RequiredSet
         /\ Own # {}
         /\ \A i \in Own : Parseable(RawDateTime(i))
         /\ Dated # {} )
       => pc = "returned"

\* a group made of one unknown-code record alone: its row exists, all null
C5_Witness ==
    /\ pc = "returned"
    /\ \E j \in Dated :
         /\ UnknownCode(RawCode(j))
         /\ RawResult(j) # NaN
         /\ \A i \in Dated : RawDay(i) = RawDay(j) => UnknownCode(RawCode(i))
         /\ \E o \in OutRowsFor(RawDay(j)) : \A k \in DataColumns : out[o].Data[k] = NaN

----------------------------------------------------------------------------
\* the scenario of three CT records on 2021-01-05
ExampleInput ==
    Table(RequiredSet,
          << Row("CT", TS(2021, 1, 5, 8),  Str("FLOW, IN"), Num(10)),
             Row("CT", TS(2021, 1, 5, 14), Str("FLOW, IN"), Num(12)),
             Row("CT", TS(2021, 1, 5, 9),  Str("BOD, IN"),  Num(5)) >>)

ExampleOutput ==
    << [Station |-> "CT",
        Dates   |-> << "2", "0", "2", "1", "-", "0", "1", "-", "0", "5" >>,
        Data    |-> [ k \in DataColumns |->
                        IF k = 1 THEN Num(12) ELSE IF k = 2 THEN Num(5) ELSE NaN ]] >>

\* C6: records of the station on one calendar date, at whatever times of
\* day, give exactly one output row for that date; and the CT records
\* (08:00 'FLOW, IN' 10), (14:00 'FLOW, IN' 12), (09:00 'BOD, IN' 5) of
\* 2021-01-05 give one row with Data 1 = 12, Data 2 = 5, Data 3..25 null.
C6_SameDateOneRow ==
    pc = "returned" =>
        /\ \A i \in Dated : Cardinality(OutRowsFor(RawDay(i))) = 1
        /\ (analyzer = "CT" /\ raw = ExampleInput) => out = ExampleOutput

C6_Witness ==
    /\ pc = "returned"
    /\ analyzer = "CT"
    /\ raw = ExampleInput
    /\ out = ExampleOutput

----------------------------------------------------------------------------
\* C7: process ends with the schema error exactly when a required column is
\* absent from the raw table's columns, and then validate_input is the only
\* step that ran: nothing was filtered, cleaned or pivoted.
C7_SchemaErrorFirst ==
    /\ Finished => (err = "SchemaError" <=> ~SchemaOk)
    /\ ~SchemaOk => pc \in { "validate_input", "raised" }
    /\ err = "SchemaError" =>
          /\ steps = << "validate_input" >>
          /\ df = raw
          /\ out = <<>>

\* the schema error on a table that has rows of the analyzer's station
C7_Witness ==
    /\ pc = "raised"
    /\ err = "SchemaError"
    /\ Str("Result") \notin raw.cols
    /\ \E i \in 1 .. Len(raw.rows) : Col(raw.rows[i], "Station_ID") = analyzer

----------------------------------------------------------------------------
\* C8: with all required columns present and no row of the analyzer's
\* station, process raises the empty-input error and returns no rows.
C8_EmptyStationRaises ==
    (Finished /\ SchemaOk /\ Own = {}) =>
        /\ pc = "raised"
        /\ err = "EmptyInputError"
        /\ out = <<>>

\* only rows of station XYZ, fed to CTAnalysis.process
C8_Witness ==
    /\ pc = "raised"
    /\ err = "EmptyInputError"
    /\ analyzer = "CT"
    /\ Len(raw.rows) > 0
    /\ \A i \in 1 .. Len(raw.rows) : Col(raw.rows[i], "Station_ID") = "XYZ"

----------------------------------------------------------------------------
(* Vocabulary of the properties of the upload run *)

Known == { "CT", "TUS" }

TableIds == { "ct_analysis", "tus_analysis" }

StationOf(t) == IF t = "ct_analysis" THEN "CT" ELSE "TUS"

Called(op, station) == <<op, station>> \in Range(calls)

Shown(kind, what) == <<kind, what>> \in Range(ui)

----------------------------------------------------------------------------
\* C3 (as claimed): best-effort batch. When the run has returned, every CT
\* or TUS station of the file has been attempted: process was called for
\* it, and it was then either uploaded or reported as failed.
C3_EveryStationAttempted ==
    upc = "returned" =>
        \A i \in 1 .. Len(stations) :
            stations[i] \in Known =>
                /\ Called("process", stations[i])
                /\ \/ Called("upload_dataframe", stations[i])
                   \/ Shown("error", stations[i])

----------------------------------------------------------------------------
\* what a table may hold, and what a step may do to the tables
C9_TableContents ==
    \A t \in TableIds :
        \/ tables[t] = [exists |-> FALSE, rows |-> <<>>]
        \/ tables[t] = [exists |-> TRUE, rows |-> OldRows]
        \/ /\ process(StationOf(t), file.table).err = "None"
           /\ tables[t] = [exists |-> TRUE,
                           rows   |-> process(StationOf(t), file.table).out]

C9_UploadStep ==
    /\ (upc = "load_job" /\ upc' = "loop") =>
          tables' = [tables EXCEPT ![TableId(stations[idx])] =
                        [exists |-> TRUE, rows |-> processed_df]]
    /\ (upc = "load_job" /\ upc' # "loop") => tables' = tables
    /\ upc # "load_job" => tables' = tables

\* C9: the persist of a station is all-or-nothing and overwrites. The step
\* that ends upload_dataframe leaves the station's table holding exactly the
\* rows process produced (success) or exactly what it held (failure), no
\* other step changes a table, and in every state each table holds what it
\* held before the upload, or the complete output of process for its
\* station on the uploaded file: never a part of it, never old and new rows
\* together.
C9_AllOrNothingOverwrite == [] C9_TableContents /\ [][C9_UploadStep]_vars

\* an upload has succeeded on a table that held rows of an earlier upload:
\* the table holds the new rows alone
C9_Witness ==
    /\ upc = "loop"
    /\ idx > 1
    /\ stations[idx - 1] \in Known
    /\ processed_df # <<>>
    /\ tables[TableId(stations[idx - 1])] = [exists |-> TRUE, rows |-> processed_df]
    /\ \E t \in TableIds : tables[t] = [exists |-> TRUE, rows |-> OldRows]

----------------------------------------------------------------------------
\* the step on a station without a profile, and the calls of a run
C10_SkipStep ==
    (upc = "loop" /\ idx <= Len(stations) /\ stations[idx] \notin Known) =>
        /\ ui' = Append(ui, <<"warning", stations[idx]>>)
        /\ upc' = "loop"
        /\ idx' = idx + 1
        /\ ret' = ret
        /\ tables' = tables
        /\ calls' = calls
        /\ processed_df' = processed_df
        /\ processVars' = processVars

C10_NoCallForUnknown ==
    /\ \A i \in 1 .. Len(calls) : calls[i][2] \in Known
    /\ upc = "returned" =>
         \A i \in 1 .. Len(stations) - 1 :
            ( /\ stations[i] \notin Known
              /\ Shown("warning", stations[i])
              /\ stations[i + 1] \in Known )
            => Called("process", stations[i + 1])

\* C10: a station without a profile is skipped with a warning. The step
\* that handles it shows the warning and moves to the next station, calls
\* neither process nor the storage, and does not end the run; no call is
\* ever made for such a station; and when the run has returned, the CT or
\* TUS station that follows a skipped station has been processed.
C10_UnknownStationSkipped == [] C10_NoCallForUnknown /\ [][C10_SkipStep]_vars

\* a run over a file with an unknown station before a known one returns True
C10_Witness ==
    /\ upc = "returned"
    /\ ret = "True"
    /\ \E i, j \in 1 .. Len(stations) :
         /\ i < j
         /\ stations[i] \notin Known
         /\ stations[j] \in Known
         /\ Shown("warning", stations[i])
         /\ Shown("success", stations[j])

----------------------------------------------------------------------------
(* Vocabulary of the properties of the column layout *)

\* get_parameter_mapping() of the two classes, and of the analyzer
CT_mapping == get_parameter_mapping(CT_PARAM_ORDER)

TUS_mapping == get_parameter_mapping(TUS_PARAM_ORDER)

Mapping == IF analyzer = "CT" THEN CT_mapping ELSE TUS_mapping

\* the station's dated records of one day
RecordsOn(day) == { j \in Dated : RawDay(j) = day }

\* the records among S that carry one code
Writers(S, code) == { j \in S : RawCode(j) = code }

LastOf(S) == CHOOSE j \in S : \A l \in S : l <= j

\* the cell the records S of one day leave in the slot of a code
Written(S, code) ==
    IF Writers(S, code) = {} THEN NaN ELSE RawResult(LastOf(Writers(S, code)))

\* C11: when process returns, the columns of the table are 'Station',
\* 'Dates', 'Data 1', ..., 'Data N' in that order, where N is the length of
\* the analyzer's PARAM_ORDER and is 25; every row has exactly the slots
\* 1..N; and for every entry 'Data k' -> code of get_parameter_mapping, the
\* column 'Data k' of every row holds the value the records of that row's
\* date wrote for that code, which is the k-th code of PARAM_ORDER.
C11_ColumnLayout ==
    pc = "returned" =>
        /\ Len(ParamOrder) = 25
        /\ Len(out_columns) = Len(ParamOrder) + 2
        /\ out_columns[1] = << "Station" >>
        /\ out_columns[2] = << "Dates" >>
        /\ out_columns[3] = << "Data", " ", "1" >>
        /\ out_columns[27] = << "Data", " ", "2", "5" >>
        /\ \A k \in 1 .. Len(ParamOrder) : out_columns[k + 2] = DataName(k)
        /\ \A o \in 1 .. Len(out) : DOMAIN out[o].Data = 1 .. Len(ParamOrder)
        /\ DOMAIN Mapping = { out_columns[k + 2] : k \in 1 .. Len(ParamOrder) }
        /\ \A k \in 1 .. Len(ParamOrder) : Mapping[out_columns[k + 2]] = ParamOrder[k]
        /\ \A o \in 1 .. Len(out) :
              LET records == RecordsOn(out[o].Dates)
                  code    == [ j \in records |-> RawCode(j) ]
              IN  \A k \in 1 .. Len(ParamOrder) :
                     LET writers == { j \in records :
                                        code[j] = Str(Mapping[out_columns[k + 2]]) }
                     IN  out[o].Data[k] =
                            IF writers = {} THEN NaN ELSE RawResult(LastOf(writers))

\* a returned table whose last column 'Data 25' holds the value of a record
\* with the 25th code, and whose 'Data 1' holds the value of a record with
\* the first code in another row
C11_Witness ==
    /\ pc = "returned"
    /\ Len(out_columns) = 27
    /\ \E o \in 1 .. Len(out) :
         /\ out[o].Data[25] # NaN
         /\ out[o].Data[25] = Written(RecordsOn(out[o].Dates), Str(ParamOrder[25]))
    /\ \E o \in 1 .. Len(out) :
         /\ out[o].Data[1] # NaN
         /\ out[o].Data[1] = Written(RecordsOn(out[o].Dates), Str(ParamOrder[1]))

----------------------------------------------------------------------------
\* the calendar date of a text YYYY-MM-DD as one number, yyyymmdd
DayNumber(day) ==
    10000 * Number(day, 1, 4) + 100 * Number(day, 6, 7) + Number(day, 9, 10)

\* C12: when process returns, for CTAnalysis and for TUSAnalysis alike, the
\* rows are in strictly ascending order of their calendar date, whatever the
\* order of the records in the input.
C12_SortedByDate ==
    pc = "returned" =>
        \A a, b \in 1 .. Len(out) :
            a < b => DayNumber(out[a].Dates) < DayNumber(out[b].Dates)

\* the input has a record of a later date before a record of an earlier
\* date, and the two rows of the output are in ascending order
C12_Witness ==
    /\ pc = "returned"
    /\ \E i, j \in Dated : i < j /\ DayNumber(RawDay(i)) > DayNumber(RawDay(j))
    /\ Len(out) = 2
    /\ DayNumber(out[1].Dates) < DayNumber(out[2].Dates)

----------------------------------------------------------------------------
(* BaseAnalysis.clean_data, which process() does not call *)

\* df.drop_duplicates(): every row that equals an earlier row is dropped
drop_duplicates(rows) ==
    LET first == SelectSeq([ i \in 1 .. Len(rows) |-> i ], LAMBDA i :
                    \A j \in 1 .. (i - 1) : rows[j] # rows[i])
    IN  [ k \in 1 .. Len(first) |-> rows[first[k]] ]

\* C13 (as claimed): exact duplicate rows are removed before pivoting, so
\* when process has finished on an input, its outcome (the error, or the
\* rows returned) is the outcome of process on that input with every row
\* that repeats an earlier row removed.
C13_DuplicatesRemoved ==
    Finished =>
        /\ err = process(analyzer, [raw EXCEPT !.rows = drop_duplicates(@)]).err
        /\ out = process(analyzer, [raw EXCEPT !.rows = drop_duplicates(@)]).out

----------------------------------------------------------------------------
\* the raw table without the rows of the other stations
OwnOnly ==
    [raw EXCEPT !.rows = SelectSeq(@, LAMBDA r : Col(r, "Station_ID") = analyzer)]

NotOwn == { i \in 1 .. Len(raw.rows) : i \notin Own }

\* C14: stations are independent units. When process has finished on a
\* table with the required columns, its outcome (the error, or the rows and
\* columns returned) is the outcome of process on the table reduced to the
\* rows of the analyzer's station, in their order; so two tables with the
\* same rows for the station have the same outcome, whatever their rows for
\* other stations. And every row returned carries the analyzer's station.
C14_StationsIndependent ==
    /\ (Finished /\ SchemaOk) =>
          LET reduced == process(analyzer, OwnOnly)
          IN  err = reduced.err /\ out = reduced.out
    /\ \A o \in 1 .. Len(out) : out[o].Station = analyzer

\* process returned rows for a table that holds, for another station, a
\* record with a date that does not parse and a record with an unknown code
C14_Witness ==
    /\ pc = "returned"
    /\ SchemaOk
    /\ Len(out) > 0
    /\ \E i \in NotOwn : ~Parseable(RawDateTime(i))
    /\ \E i \in NotOwn : UnknownCode(RawCode(i))

----------------------------------------------------------------------------
\* the positions in the call log of the calls of one operation for a station
CallsOf(op, station) == { i \in 1 .. Len(calls) : calls[i] = <<op, station>> }

\* what the call log of a run may hold
C16_CallLog ==
    /\ \A i \in 1 .. Len(calls) :
          calls[i][1] = "upload_dataframe" =>
              /\ i > 1
              /\ calls[i - 1] = <<"process", calls[i][2]>>
    /\ \A s \in Known : Cardinality(CallsOf("upload_dataframe", s)) <= 1
    /\ \A s \in Known : Cardinality(CallsOf("process", s)) <= 1
    /\ (upc = "process" /\ pc = "raised") =>
          CallsOf("upload_dataframe", stations[idx]) = {}
    /\ (upc = "returned" /\ Shown("error", "upload_dataframe")) =>
          /\ ret = "False"
          /\ calls[Len(calls)][1] = "upload_dataframe"

\* the step that calls upload_dataframe, and the step after a failed upload
C16_UploadCallStep ==
    /\ (Len(calls') > Len(calls) /\ calls'[Len(calls')][1] = "upload_dataframe") =>
          /\ upc = "process"
          /\ pc = "returned"
          /\ err = "None"
          /\ calls'[Len(calls')][2] = analyzer
          /\ process(analyzer, raw).err = "None"
          /\ out = process(analyzer, raw).out
          /\ Len(out) > 0
          /\ processed_df' = out
    /\ (upc = "load_job" /\ upc' # "loop") =>
          /\ upc' = "returned"
          /\ calls' = calls

\* C16: within one upload run, upload_dataframe is called for a station only
\* in a step taken when that station's process call has returned, without
\* error, the complete table process computes for the file, and it is handed
\* that table; it is never called when process raised; each station has at
\* most one process call and one upload_dataframe call per run; and a failed
\* upload ends the run with no further call.
C16_UploadOnlyAfterProcess == [] C16_CallLog /\ [][C16_UploadCallStep]_vars

\* a run of two stations: the first was uploaded, the upload of the second
\* failed, and the run ended with one upload call for each
C16_Witness ==
    /\ upc = "returned"
    /\ ret = "False"
    /\ Len(calls) = 4
    /\ Shown("error", "upload_dataframe")
    /\ \E s \in Known : Shown("success", s)
    /\ \A s \in Known : Cardinality(CallsOf("upload_dataframe", s)) = 1

----------------------------------------------------------------------------
\* the calendar date a text parses to
ParsedDate(text) == dt_date(to_datetime(text))

\* the station's dated records whose calendar date is that of output row o
GroupOf(o) ==
    LET date == ParsedDate(out[o].Dates)
    IN  { j \in Dated : ParsedDate(RawDateTime(j)) = date }

\* C17: round trip of dates. When process returns, every 'Dates' value is a
\* text of the form YYYY-MM-DD, ten characters long; parsing it back gives a
\* calendar date that is the calendar date, time of day discarded, of at
\* least one record of the station, and of every record whose Result is in
\* the row; and the calendar date of every dated record is the parsed
\* 'Dates' of exactly one row.
C17_DatesRoundTrip ==
    pc = "returned" =>
        /\ \A o \in 1 .. Len(out) :
              /\ Len(out[o].Dates) = 10
              /\ IsDateText(out[o].Dates)
              /\ to_datetime(out[o].Dates).hour = 0
              /\ to_datetime(out[o].Dates).minute = 0
              /\ LET group == GroupOf(o)
                 IN  /\ group # {}
                     /\ \A k \in DataColumns :
                           out[o].Data[k] # NaN =>
                               \E j \in group : /\ RawCode(j) = Str(ParamOrder[k])
                                                /\ RawResult(j) = out[o].Data[k]
        /\ \A j \in Dated :
              Cardinality({ o \in 1 .. Len(out) :
                  ParsedDate(out[o].Dates) = ParsedDate(RawDateTime(j)) }) = 1

\* two rows, one of them built from records taken at two times of day
C17_Witness ==
    /\ pc = "returned"
    /\ Len(out) = 2
    /\ \E o \in 1 .. Len(out) : \E i, j \in GroupOf(o) :
          /\ to_datetime(RawDateTime(i)).hour # to_datetime(RawDateTime(j)).hour
          /\ to_datetime(RawDateTime(i)).hour # 0
          /\ out[o].Dates = IsoDate(ParsedDate(RawDateTime(i)))

----------------------------------------------------------------------------
AllNull(o) == \A k \in DataColumns : out[o].Data[k] = NaN

\* C18: when process returns, every row has all N slots; a slot is null
\* when no record of the row's date carries the slot's catalog code; and a
\* date on which no record of the station carries a catalog code still has
\* exactly one row, whose N slots are all null.
C18_UnwrittenSlotsNull ==
    pc = "returned" =>
        /\ \A o \in 1 .. Len(out) :
              /\ DOMAIN out[o].Data = 1 .. Len(ParamOrder)
              /\ LET codes == { RawCode(j) : j \in RecordsOn(out[o].Dates) }
                 IN  \A k \in 1 .. Len(ParamOrder) :
                        Str(ParamOrder[k]) \notin codes => out[o].Data[k] = NaN
        /\ \A j \in Dated :
              (\A i \in RecordsOn(RawDay(j)) : UnknownCode(RawCode(i))) =>
                  /\ Cardinality(OutRowsFor(RawDay(j))) = 1
                  /\ \A o \in OutRowsFor(RawDay(j)) : AllNull(o)

\* two rows: one of a date with unknown codes only, all null, next to one
\* with a written slot and 24 null slots
C18_Witness ==
    /\ pc = "returned"
    /\ Len(out) = 2
    /\ \E o \in 1 .. Len(out) :
          /\ AllNull(o)
          /\ \E j \in RecordsOn(out[o].Dates) : RawResult(j) # NaN
    /\ \E o \in 1 .. Len(out) :
          Cardinality({ k \in DataColumns : out[o].Data[k] = NaN }) = 24

----------------------------------------------------------------------------
\* the raw table with every PCode cell already trimmed
TrimmedRaw ==
    [raw EXCEPT !.rows =
        [ i \in 1 .. Len(raw.rows) |->
            [raw.rows[i] EXCEPT ![Str("PCode")] = Strip(@)] ]]

Padded(i) == Col(raw.rows[i], "PCode") # Strip(Col(raw.rows[i], "PCode"))

\* C19: codes are matched after trimming. When process has finished on a
\* table with the required columns and a padded PCode, its outcome is the
\* outcome of process on the same table with every PCode written without
\* surrounding whitespace; when it returns, a record whose padded code is the k-th of
\* PARAM_ORDER once trimmed, and that is the last of its date and code,
\* has its Result in 'Data k' of its date's row; and every slot that is
\* not null holds the Result of a record whose trimmed code is the slot's
\* code, so a code that is no catalog code after trimming populates nothing.
C19_TrimmedMatching ==
    /\ (Finished /\ SchemaOk /\ \E i \in 1 .. Len(raw.rows) : Padded(i)) =>
          LET trimmed == process(analyzer, TrimmedRaw)
          IN  err = trimmed.err /\ out = trimmed.out
    /\ pc = "returned" =>
          /\ \A j \in Dated :
                Padded(j) =>
                    \A k \in 1 .. Len(ParamOrder) :
                        ( /\ Strip(Col(raw.rows[j], "PCode")) = Str(ParamOrder[k])
                          /\ j = LastOf(Writers(RecordsOn(RawDay(j)), Str(ParamOrder[k]))) )
                        => \E o \in OutRowsFor(RawDay(j)) : out[o].Data[k] = RawResult(j)
          /\ \A o \in 1 .. Len(out) : \A k \in 1 .. Len(ParamOrder) :
                out[o].Data[k] # NaN =>
                    \E j \in RecordsOn(out[o].Dates) :
                        /\ Strip(Col(raw.rows[j], "PCode")) = Str(ParamOrder[k])
                        /\ RawResult(j) = out[o].Data[k]

\* the record with the code ' BOD, IN ' has its Result in 'Data 2'
C19_Witness ==
    /\ pc = "returned"
    /\ \E j \in Dated :
          /\ Col(raw.rows[j], "PCode") = << " ", "BOD, IN", " " >>
          /\ RawResult(j) # NaN
          /\ \E o \in OutRowsFor(RawDay(j)) : out[o].Data[2] = RawResult(j)

----------------------------------------------------------------------------
\* the other of the two analysis classes
OtherAnalyzer == IF analyzer = "CT" THEN "TUS" ELSE "CT"

SwapStation(station) ==
    IF station = "CT" THEN "TUS" ELSE IF station = "TUS" THEN "CT" ELSE station

\* the raw table with the rows of CT relabelled TUS and those of TUS
\* relabelled CT
Relabelled ==
    IF Str("Station_ID") \in raw.cols
    THEN [raw EXCEPT !.rows =
            [ i \in 1 .. Len(raw.rows) |->
                [raw.rows[i] EXCEPT ![Str("Station_ID")] = SwapStation(@)] ]]
    ELSE raw

\* C20: the two pivot implementations are equivalent. When the process of
\* one class has finished on a table, the process of the other class on the
\* same table with the station labels exchanged fails with the same error
\* if the first failed, and otherwise returns as many rows, in the same
\* order, with the same 'Dates' and the same slot values, each carrying the
\* other station's name.
C20_PivotsEquivalent ==
    Finished =>
        LET other == process(OtherAnalyzer, Relabelled)
        IN  /\ err = other.err
            /\ Len(out) = Len(other.out)
            /\ \A o \in 1 .. Len(out) :
                  /\ out[o].Dates = other.out[o].Dates
                  /\ out[o].Data = other.out[o].Data
                  /\ out[o].Station = analyzer
                  /\ other.out[o].Station = OtherAnalyzer

\* CTAnalysis returned two rows, one of them with a slot written twice, and
\* TUSAnalysis returns the same two rows for the relabelled records
C20_Witness ==
    /\ pc = "returned"
    /\ analyzer = "CT"
    /\ Len(out) = 2
    /\ \E i, j \in Dated :
          /\ i < j
          /\ RawDay(i) = RawDay(j)
          /\ RawCode(i) = RawCode(j)
          /\ ~UnknownCode(RawCode(i))
          /\ RawResult(i) # RawResult(j)
    /\ Len(process("TUS", Relabelled).out) = 2
    /\ \A o \in 1 .. 2 : process("TUS", Relabelled).out[o].Data = out[o].Data

----------------------------------------------------------------------------
\* the run that has returned handled every CT/TUS station of the file:
\* process was called, the upload succeeded, and the station's table holds
\* what process returns for the file
AllStationsUploaded ==
    /\ file.readable
    /\ HasCol(file.table.cols, "Station_ID")
    /\ stations = unique(file.table.rows, "Station_ID")
    /\ \A i \in 1 .. Len(stations) :
          stations[i] \in Known =>
              /\ Called("process", stations[i])
              /\ Called("upload_dataframe", stations[i])
              /\ Shown("success", stations[i])
              /\ process(stations[i], file.table).err = "None"
              /\ tables[TableId(stations[i])] =
                    [exists |-> TRUE, rows |-> process(stations[i], file.table).out]

\* a run is under way
Running == upc \in { "read_file", "check_columns", "loop", "process", "load_job" }

\* what holds of the flag in every state
C21_FlagStates ==
    /\ Running => ~uploaded
    /\ upc = "returned" => ~uploaded
    /\ uploaded => (upc = "main" /\ ret = "True" /\ AllStationsUploaded)

\* what a step may do to the flag
C21_FlagStep ==
    /\ (~uploaded /\ uploaded') =>
          /\ upc = "returned"
          /\ ret = "True"
          /\ AllStationsUploaded
          /\ tables' = tables
    /\ (upc = "returned" /\ ret = "False") =>
          /\ uploaded' = FALSE
          /\ tables' = tables
    /\ (uploaded /\ ~uploaded') =>
          /\ upc = "main"
          /\ upc' = "main"
          /\ tables' = tables
          /\ calls' = calls
          /\ processVars' = processVars

\* C21: the flag 'uploaded' goes from false to true only in the step that
\* ends a run that returned True, in which every CT/TUS station of the file
\* was processed and uploaded; a run is made only while the flag is false,
\* and after a run that returned False (a station failed, the file could not
\* be read or lacks Station_ID) the flag is still false and the tables
\* overwritten earlier in that run stay overwritten; the flag goes from true
\* to false only in the RESET step of main, which starts no run and changes
\* no table.
C21_UploadedFlag == [] C21_FlagStates /\ [][C21_FlagStep]_vars

\* after a failed run: the first station's table was overwritten, the second
\* station failed, main is back at its start and the flag is false
C21_Witness ==
    /\ upc = "main"
    /\ ~uploaded
    /\ ret = "False"
    /\ Len(stations) = 2
    /\ Shown("success", stations[1])
    /\ Shown("error", stations[2])
    /\ tables[TableId(stations[1])] =
          [exists |-> TRUE, rows |-> process(stations[1], file.table).out]
    /\ tables[TableId(stations[2])] # [exists |-> TRUE, rows |-> processed_df]

====
